---- MODULE Spec2Model ----
(***************************************************************************)
(* Points ledger and gift redemption of the check-in plugin (src/main.py). *)
(* The in-memory document self.data is the variable data; every command    *)
(* handler of CheckInGiftPlugin is one action.                             *)
(***************************************************************************)
EXTENDS Integers, Sequences, FiniteSets, TLC

\* ---------------------------------------------------------------- bounds
MaxOps == 2        \* commands dispatched in one run
MaxDay == 3        \* calendar days the clock runs through
MonthLen == 2      \* days per calendar month of the modelled calendar
MaxCount == 2      \* largest count argument of a redemption
MaxStoreOps == 1   \* commands dispatched in a run that follows the save step by step
MaxCtxOps == 1     \* commands dispatched in a run over two contexts

\* ------------------------------------------------------ program constants
DEFAULT_POINTS_PER_CHECKIN == 10

\* ------------------------------------------------------------ input sets
Contexts == {"c1"}
Users == {"u1", "u2"}
Names == {"a", "b"}
GiftIds == {"g1", "g2"}

None == <<>>
EmptyMap == [x \in {} |-> 0]

VARIABLES
  data,      \* self.data["contexts"]: context id -> context
  clock,     \* the calendar day of the latest datetime.date.today(), as an ordinal
  last,      \* the command handled last and what it replied
  ops,       \* number of commands handled so far
  had_admin, \* history: the contexts that have had an admin at some time
  pc,        \* per thread: position inside a handler (threaded dispatch)
  loc,       \* per thread: the handler's local variables
  disk,      \* the file at DATA_FILE
  tmp,       \* the file at DATA_FILE + ".tmp"
  issued     \* history: the <<context, gift id, code>> handed out by redemptions

vars == <<data, clock, last, ops, had_admin, pc, loc, disk, tmp, issued>>

\* ------------------------------------------------------- dict operations
Get(d, k, dflt) == IF k \in DOMAIN d THEN d[k] ELSE dflt

Put(d, k, v) == [x \in (DOMAIN d) \cup {k} |-> IF x = k THEN v ELSE d[x]]

SetDefault(d, k, v) == IF k \in DOMAIN d THEN d ELSE Put(d, k, v)

Del(d, k) == [x \in (DOMAIN d) \ {k} |-> d[x]]

Max(a, b) == IF a >= b THEN a ELSE b

\* ------------------------------------------------------------- calendar
\* date.isoformat(): "YYYY-MM-DD", kept as <<year-month, day of month>>.
isoformat(n) == <<((n - 1) \div MonthLen) + 1, ((n - 1) % MonthLen) + 1>>

\* date.fromisoformat()
fromisoformat(s) == (s[1] - 1) * MonthLen + s[2]

\* s[:7], the year-month prefix of an ISO date
month_of(s) == s[1]

\* -------------------------------------------------------------- storage
\* A file is absent, holds a complete JSON text, or holds part of one. Every key
\* of the document is a str and every value a str, an int, None, a list or a
\* dict, so json.load gives back the document json.dump was given.
NoFile == [kind |-> "absent"]

TornFile == [kind |-> "torn"]

JsonFile(d) == [kind |-> "json", doc |-> d]

\* lines 42-50: a missing file and a file that does not parse both load as the
\* empty document
_load_data(file) == IF file.kind = "json" THEN file.doc ELSE EmptyMap

\* lines 53-61 when no call raises: DATA_FILE is replaced by the dumped document
_save_data(file, d) == JsonFile(d)

\* --------------------------------------------------------- _ensure_ctx
DefaultConfig == [points_per_checkin |-> DEFAULT_POINTS_PER_CHECKIN]

_ensure_ctx(d, ctx_id) ==
  LET c0 == Get(d, ctx_id, EmptyMap)
      c1 == SetDefault(c0, "users", EmptyMap)
      c2 == SetDefault(c1, "gifts", EmptyMap)
      c3 == SetDefault(c2, "config", DefaultConfig)
      c4 == SetDefault(c3, "admins", <<>>)
  IN  Put(d, ctx_id, c4)

\* mutant: the user record is stored in every context of the document
WithUser_everywhere(d, ctx_id, user_id, rec) ==
  [c \in DOMAIN d |-> Put(d[c], "users", Put(d[c]["users"], user_id, rec))]

\* the document with user record rec stored under users[user_id] of ctx_id
WithUser(d, ctx_id, user_id, rec) ==
  Put(d, ctx_id, Put(d[ctx_id], "users", Put(d[ctx_id]["users"], user_id, rec)))

WithGift(d, ctx_id, gift_id, rec) ==
  Put(d, ctx_id, Put(d[ctx_id], "gifts", Put(d[ctx_id]["gifts"], gift_id, rec)))

SeqToSet(s) == {s[i] : i \in 1..Len(s)}

\* mutant: everybody passes the gate while no admin is bound
_is_admin_open(ctx, user_id) ==
  Get(ctx, "admins", <<>>) = <<>> \/ user_id \in SeqToSet(Get(ctx, "admins", <<>>))

_is_admin(ctx, user_id) == user_id \in SeqToSet(Get(ctx, "admins", <<>>))

\* ------------------------------------------------------------- check_in
NewCheckinUser(username) ==
  [username |-> username, points |-> 0, total_days |-> 0, continuous_days |-> 0,
   month_days |-> 0, last_checkin |-> None, purchases |-> EmptyMap]

\* mutant: month_days is carried over into the next month
streak_no_month_reset(user, today, day2) ==
  LET last_date == Get(user, "last_checkin", None)
  IN  IF last_date # None /\ day2 - fromisoformat(last_date) = 1
      THEN Put(user, "continuous_days", Get(user, "continuous_days", 0) + 1)
      ELSE Put(user, "continuous_days", 1)

\* lines 245-258: the streak and the month reset; day2 is the second clock read
streak(user, today, day2) ==
  LET last_date == Get(user, "last_checkin", None)
  IN  IF last_date # None
      THEN LET u1 == IF day2 - fromisoformat(last_date) = 1
                     THEN Put(user, "continuous_days", Get(user, "continuous_days", 0) + 1)
                     ELSE Put(user, "continuous_days", 1)
           IN  IF month_of(last_date) # month_of(today)
               THEN Put(u1, "month_days", 0)
               ELSE u1
      ELSE Put(user, "continuous_days", 1)

\* mutant: total_days is not counted
award_no_total(ctx, user, today) ==
  LET points == Get(Get(ctx, "config", EmptyMap), "points_per_checkin",
                    DEFAULT_POINTS_PER_CHECKIN)
      u1 == Put(user, "points", Get(user, "points", 0) + points)
      u2 == Put(u1, "month_days", Get(u1, "month_days", 0) + 1)
  IN  Put(u2, "last_checkin", today)

\* lines 260-267: the award and the counters
award(ctx, user, today) ==
  LET points == Get(Get(ctx, "config", EmptyMap), "points_per_checkin",
                    DEFAULT_POINTS_PER_CHECKIN)
      u1 == Put(user, "points", Get(user, "points", 0) + points)
      u2 == Put(u1, "total_days", Get(u1, "total_days", 0) + 1)
      u3 == Put(u2, "month_days", Get(u2, "month_days", 0) + 1)
  IN  Put(u3, "last_checkin", today)

\* lines 226-238: resolve the user, refresh the user name
checkin_user(d, ctx_id, user_id, username) ==
  LET users == SetDefault(d[ctx_id]["users"], user_id, NewCheckinUser(username))
  IN  WithUser(d, ctx_id, user_id, Put(users[user_id], "username", username))

\* lines 245-267 on the user record as it is when they run
checkin_commit(d, ctx_id, user_id, today, day2) ==
  WithUser(d, ctx_id, user_id,
           award(d[ctx_id], streak(d[ctx_id]["users"][user_id], today, day2), today))

\* line 241
already_checked_in(user, today) == Get(user, "last_checkin", None) = today

\* the whole handler: day1 and day2 are the two reads of the clock
check_in_run(d, ctx_id, user_id, username, day1, day2) ==
  LET today == isoformat(day1)
      d1 == checkin_user(_ensure_ctx(d, ctx_id), ctx_id, user_id, username)
  IN  IF already_checked_in(d1[ctx_id]["users"][user_id], today)
      THEN [data |-> d1, res |-> "AlreadyCheckedInToday", saved |-> FALSE]
      ELSE [data |-> checkin_commit(d1, ctx_id, user_id, today, day2),
            res |-> "ok", saved |-> TRUE]

\* the contexts of document d whose admin list is not empty
Administered(d) == {c \in DOMAIN d : Get(d[c], "admins", <<>>) # <<>>}

\* mutant: the fallback reply leaves the codes out
fallback_reply_silent(codes, ok) == <<>>

\* lines 369-373: the codes the reply in the chat shows, ok being what
\* _try_send_private returned: none when the private message went out
fallback_reply(codes, ok) == IF ok THEN <<>> ELSE codes

\* what a handler reports: the reply sent and whether _save() ran; codes are the
\* codes of the private message, shown the codes of the reply
Reply(op, ctx_id, caller, arg, r) ==
  [op |-> op, ctx |-> ctx_id, caller |-> caller, arg |-> arg, res |-> r.res,
   saved |-> r.saved, codes |-> Get(r, "codes", <<>>), count |-> Get(r, "count", 0),
   delivered |-> Get(r, "delivered", FALSE),
   shown |-> fallback_reply(Get(r, "codes", <<>>), Get(r, "delivered", FALSE))]

\* the codes a reply hands to the redeeming user (lines 367-373)
Issued(reply) ==
  IF reply.op = "redeem_gift" /\ reply.res = "ok"
  THEN {<<reply.ctx, reply.arg, reply.codes[i]>> : i \in 1..Len(reply.codes)}
  ELSE {}

\* day1 is what date.today() returns at line 223, day2 what it returns at line 250:
\* the day may change before the command and between the two reads
check_in(ctx_id, user_id, username, day1, day2) ==
  /\ ops < MaxOps
  /\ clock <= day1 /\ day2 \in {day1, day1 + 1} /\ day2 <= MaxDay
  /\ LET r == check_in_run(data, ctx_id, user_id, username, day1, day2)
     IN  /\ data' = r.data
         /\ clock' = IF r.res = "ok" THEN day2 ELSE day1
         /\ last' = Reply("check_in", ctx_id, user_id, username, r) @@ [today |-> day1]
  /\ ops' = ops + 1
  /\ had_admin' = had_admin \cup Administered(data')
  /\ disk' = IF last'.saved THEN _save_data(disk, data') ELSE disk
  /\ issued' = issued \cup Issued(last')
  /\ UNCHANGED <<pc, loc, tmp>>

\* ---------------------------------------------------------- redeem_gift
NewRedeemUser(username) == [username |-> username, points |-> 0, purchases |-> EmptyMap]

\* line 320: count = max(1, int(args[1])); a missing count argument is 1
parse_count(raw) == Max(1, raw)

Min(a, b) == IF a <= b THEN a ELSE b

\* mutant: codes.pop() takes the codes from the end of the pool
sent_codes_lifo(codes, count) ==
  SubSeq(codes, Len(codes) - Min(count, Len(codes)) + 1, Len(codes))

\* lines 362-364: codes.pop(0), count times (pop raises once the list is empty)
sent_codes(codes, count) == SubSeq(codes, 1, Min(count, Len(codes)))

\* mutant: the codes sent stay in the pool
rest_codes_keep(codes, count) == codes

rest_codes(codes, count) == SubSeq(codes, Min(count, Len(codes)) + 1, Len(codes))

\* line 330
out_of_stock(gift, count) == Get(gift, "quantity", 0) < count

\* mutant: the units asked for are left out of the comparison
over_limit_bought_only(per_limit, bought, count) == per_limit > 0 /\ bought > per_limit

\* line 337
over_limit(per_limit, bought, count) == per_limit > 0 /\ bought + count > per_limit

\* line 342
cannot_afford(user, need) == Get(user, "points", 0) < need

\* lines 347-349
codes_short(gift, count) ==
  Get(gift, "type", "manual") = "code" /\ Len(Get(gift, "codes", <<>>)) < count

\* lines 324-351: the checks, in the order of the code. The user record is created
\* (line 335) once the gift and the stock checks have passed.
redeem_validate(d, ctx_id, user_id, username, gift_id, count) ==
  LET gifts == Get(d[ctx_id], "gifts", EmptyMap)
  IN  IF gift_id \notin DOMAIN gifts
      THEN [data |-> d, res |-> "GiftNotFound"]
      ELSE
      LET gift == gifts[gift_id]
      IN  IF out_of_stock(gift, count)
          THEN [data |-> d, res |-> "InsufficientStock"]
          ELSE
          LET per_limit == Get(gift, "per_user_limit", 0)
              users == SetDefault(d[ctx_id]["users"], user_id, NewRedeemUser(username))
              user == users[user_id]
              d1 == WithUser(d, ctx_id, user_id, user)
              bought == Get(Get(user, "purchases", EmptyMap), gift_id, 0)
              need == Get(gift, "points_required", 0) * count
          IN  IF over_limit(per_limit, bought, count)
              THEN [data |-> d1, res |-> "OverPersonalLimit"]
              ELSE IF cannot_afford(user, need)
              THEN [data |-> d1, res |-> "InsufficientPoints"]
              ELSE IF codes_short(gift, count)
              THEN [data |-> d1, res |-> "InsufficientCodes"]
              ELSE [data |-> d1, res |-> "ok", bought |-> bought, need |-> need]

\* lines 353-364: the commit, with the locals bought and need of the validation
redeem_commit(d, ctx_id, user_id, gift_id, count, bought, need) ==
  LET user == d[ctx_id]["users"][user_id]
      gift == d[ctx_id]["gifts"][gift_id]
      u1 == Put(user, "points", Get(user, "points", 0) - need)
      u2 == Put(u1, "purchases",
                Put(Get(u1, "purchases", EmptyMap), gift_id, bought + count))
      g1 == Put(gift, "quantity", Get(gift, "quantity", 0) - count)
      g2 == IF Get(gift, "type", "manual") = "code"
            THEN Put(g1, "codes", rest_codes(Get(g1, "codes", <<>>), count))
            ELSE g1
  IN  WithGift(WithUser(d, ctx_id, user_id, u2), ctx_id, gift_id, g2)

\* the codes a committed redemption hands out (none for a manual gift)
redeem_codes(d, ctx_id, gift_id, count) ==
  LET gift == d[ctx_id]["gifts"][gift_id]
  IN  IF Get(gift, "type", "manual") = "code"
      THEN sent_codes(Get(gift, "codes", <<>>), count)
      ELSE <<>>

\* mutant: the stock is taken before the limit, points and code checks
redeem_gift_run_early_stock(d, ctx_id, user_id, username, gift_id, raw_count, private) ==
  LET count == parse_count(raw_count)
      d1 == _ensure_ctx(d, ctx_id)
      v == redeem_validate(d1, ctx_id, user_id, username, gift_id, count)
  IN  IF v.res \in {"GiftNotFound", "InsufficientStock"}
      THEN [data |-> v.data, res |-> v.res, saved |-> FALSE, count |-> count]
      ELSE IF v.res # "ok"
      THEN LET gift == v.data[ctx_id]["gifts"][gift_id]
           IN  [data |-> WithGift(v.data, ctx_id, gift_id,
                                  Put(gift, "quantity", gift["quantity"] - count)),
                res |-> v.res, saved |-> FALSE, count |-> count]
      ELSE [data |-> redeem_commit(v.data, ctx_id, user_id, gift_id, count,
                                   v.bought, v.need),
            res |-> "ok", saved |-> TRUE, count |-> count,
            codes |-> redeem_codes(v.data, ctx_id, gift_id, count),
            delivered |-> private]

\* the whole handler; private is the result of _try_send_private
redeem_gift_run(d, ctx_id, user_id, username, gift_id, raw_count, private) ==
  LET count == parse_count(raw_count)
      d1 == _ensure_ctx(d, ctx_id)
      v == redeem_validate(d1, ctx_id, user_id, username, gift_id, count)
  IN  IF v.res # "ok"
      THEN [data |-> v.data, res |-> v.res, saved |-> FALSE, count |-> count]
      ELSE [data |-> redeem_commit(v.data, ctx_id, user_id, gift_id, count,
                                   v.bought, v.need),
            res |-> "ok", saved |-> TRUE, count |-> count,
            codes |-> redeem_codes(v.data, ctx_id, gift_id, count),
            delivered |-> private]

redeem_gift(ctx_id, user_id, username, gift_id, raw_count, private) ==
  /\ ops < MaxOps
  /\ LET r == redeem_gift_run(data, ctx_id, user_id, username, gift_id, raw_count, private)
     IN  /\ data' = r.data
         /\ last' = Reply("redeem_gift", ctx_id, user_id, gift_id, r)
  /\ ops' = ops + 1
  /\ had_admin' = had_admin \cup Administered(data')
  /\ disk' = IF last'.saved THEN _save_data(disk, data') ELSE disk
  /\ issued' = issued \cup Issued(last')
  /\ UNCHANGED <<clock, pc, loc, tmp>>

\* ------------------------------------------------------ admin commands
NoArg == ""      \* a command sent without its argument

Denied == [res |-> "Unauthorized", saved |-> FALSE]

WithCtx(d, ctx_id, key, v) == Put(d, ctx_id, Put(d[ctx_id], key, v))

bind_admin_run(d, ctx_id, user_id) ==
  LET d1 == _ensure_ctx(d, ctx_id)
      admins == Get(d1[ctx_id], "admins", <<>>)
  IN  IF admins # <<>>
      THEN [data |-> d1, res |-> "AlreadyHasAdmins", saved |-> FALSE]
      ELSE [data |-> WithCtx(d1, ctx_id, "admins", Append(admins, user_id)),
            res |-> "ok", saved |-> TRUE]

bind_admin(ctx_id, user_id) ==
  /\ ops < MaxOps
  /\ LET r == bind_admin_run(data, ctx_id, user_id)
     IN  /\ data' = r.data
         /\ last' = Reply("bind_admin", ctx_id, user_id, NoArg, r)
  /\ ops' = ops + 1
  /\ had_admin' = had_admin \cup Administered(data')
  /\ disk' = IF last'.saved THEN _save_data(disk, data') ELSE disk
  /\ issued' = issued \cup Issued(last')
  /\ UNCHANGED <<clock, pc, loc, tmp>>

add_admin_run(d, ctx_id, caller, target) ==
  LET d1 == _ensure_ctx(d, ctx_id)
      admins == Get(d1[ctx_id], "admins", <<>>)
  IN  IF ~_is_admin(d1[ctx_id], caller)
      THEN [data |-> d1] @@ Denied
      ELSE IF target = NoArg
      THEN [data |-> d1, res |-> "Usage", saved |-> FALSE]
      ELSE IF target \in SeqToSet(admins)
      THEN [data |-> d1, res |-> "AlreadyAdmin", saved |-> FALSE]
      ELSE [data |-> WithCtx(d1, ctx_id, "admins", Append(admins, target)),
            res |-> "ok", saved |-> TRUE]

add_admin(ctx_id, caller, target) ==
  /\ ops < MaxOps
  /\ LET r == add_admin_run(data, ctx_id, caller, target)
     IN  /\ data' = r.data
         /\ last' = Reply("add_admin", ctx_id, caller, target, r)
  /\ ops' = ops + 1
  /\ had_admin' = had_admin \cup Administered(data')
  /\ disk' = IF last'.saved THEN _save_data(disk, data') ELSE disk
  /\ issued' = issued \cup Issued(last')
  /\ UNCHANGED <<clock, pc, loc, tmp>>

remove_admin_run(d, ctx_id, caller, target) ==
  LET d1 == _ensure_ctx(d, ctx_id)
      admins == Get(d1[ctx_id], "admins", <<>>)
  IN  IF ~_is_admin(d1[ctx_id], caller)
      THEN [data |-> d1] @@ Denied
      ELSE IF target = NoArg
      THEN [data |-> d1, res |-> "Usage", saved |-> FALSE]
      ELSE IF target \notin SeqToSet(admins)
      THEN [data |-> d1, res |-> "NotAdmin", saved |-> FALSE]
      ELSE [data |-> WithCtx(d1, ctx_id, "admins",
                             SelectSeq(admins, LAMBDA a : a # target)),
            res |-> "ok", saved |-> TRUE]

remove_admin(ctx_id, caller, target) ==
  /\ ops < MaxOps
  /\ LET r == remove_admin_run(data, ctx_id, caller, target)
     IN  /\ data' = r.data
         /\ last' = Reply("remove_admin", ctx_id, caller, target, r)
  /\ ops' = ops + 1
  /\ had_admin' = had_admin \cup Administered(data')
  /\ disk' = IF last'.saved THEN _save_data(disk, data') ELSE disk
  /\ issued' = issued \cup Issued(last')
  /\ UNCHANGED <<clock, pc, loc, tmp>>

\* lines 593-599
set_points_per_checkin_run(d, ctx_id, caller, v) ==
  LET d1 == _ensure_ctx(d, ctx_id)
  IN  IF ~_is_admin(d1[ctx_id], caller)
      THEN [data |-> d1] @@ Denied
      ELSE [data |-> WithCtx(d1, ctx_id, "config",
                             Put(SetDefault(d1[ctx_id], "config", EmptyMap)["config"],
                                 "points_per_checkin", v)),
            res |-> "ok", saved |-> TRUE]

set_points_per_checkin(ctx_id, caller, v) ==
  /\ ops < MaxOps
  /\ LET r == set_points_per_checkin_run(data, ctx_id, caller, v)
     IN  /\ data' = r.data
         /\ last' = Reply("set_points_per_checkin", ctx_id, caller, NoArg, r)
  /\ ops' = ops + 1
  /\ had_admin' = had_admin \cup Administered(data')
  /\ disk' = IF last'.saved THEN _save_data(disk, data') ELSE disk
  /\ issued' = issued \cup Issued(last')
  /\ UNCHANGED <<clock, pc, loc, tmp>>

NewGrantUser(target) == [username |-> target, points |-> 0, purchases |-> EmptyMap]

\* lines 658-659
admin_add_points_run(d, ctx_id, caller, target, delta) ==
  LET d1 == _ensure_ctx(d, ctx_id)
  IN  IF ~_is_admin(d1[ctx_id], caller)
      THEN [data |-> d1] @@ Denied
      ELSE LET users == SetDefault(d1[ctx_id]["users"], target, NewGrantUser(target))
               user == users[target]
           IN  [data |-> WithUser(d1, ctx_id, target,
                                  Put(user, "points", Get(user, "points", 0) + delta)),
                res |-> "ok", saved |-> TRUE]

admin_add_points(ctx_id, caller, target, delta) ==
  /\ ops < MaxOps
  /\ LET r == admin_add_points_run(data, ctx_id, caller, target, delta)
     IN  /\ data' = r.data
         /\ last' = Reply("admin_add_points", ctx_id, caller, target, r)
  /\ ops' = ops + 1
  /\ had_admin' = had_admin \cup Administered(data')
  /\ disk' = IF last'.saved THEN _save_data(disk, data') ELSE disk
  /\ issued' = issued \cup Issued(last')
  /\ UNCHANGED <<clock, pc, loc, tmp>>

\* ----------------------------------------------------- catalog commands
\* [c.strip() for c in s.split(',') if c.strip()]: the empty pieces are dropped
split_codes(raw) == SelectSeq(raw, LAMBDA c : c # "")

\* args.get('qty', args.get('quantity', 0) or 0)
arg_qty(args) == Get(args, "qty", Get(args, "quantity", 0))

\* args.get('per_user_limit', args.get('limit', 0) or 0)
arg_limit(args) == Get(args, "per_user_limit", Get(args, "limit", 0))

\* lines 482-501: the gift built from the parsed key=value arguments
new_gift(args) ==
  LET gtype == Get(args, "type", "manual")
  IN  [name |-> Get(args, "name", Get(args, "title", "")),
       points_required |-> Get(args, "points", 0),
       quantity |-> arg_qty(args),
       per_user_limit |-> arg_limit(args),
       type |-> gtype,
       codes |-> IF gtype = "code" /\ "codes" \in DOMAIN args
                 THEN split_codes(args["codes"]) ELSE <<>>,
       description |-> Get(args, "description", "")]

\* gift_id is uuid.uuid4().hex[:8]: eight random hexadecimal digits
add_gift_run(d, ctx_id, caller, args, gift_id) ==
  LET d1 == _ensure_ctx(d, ctx_id)
  IN  IF ~_is_admin(d1[ctx_id], caller)
      THEN [data |-> d1] @@ Denied
      ELSE IF Get(args, "name", Get(args, "title", "")) = ""
      THEN [data |-> d1, res |-> "MissingName", saved |-> FALSE]
      ELSE [data |-> WithGift(d1, ctx_id, gift_id, new_gift(args)),
            res |-> "ok", saved |-> TRUE]

add_gift(ctx_id, caller, args, gift_id) ==
  /\ ops < MaxOps
  /\ LET r == add_gift_run(data, ctx_id, caller, args, gift_id)
     IN  /\ data' = r.data
         /\ last' = Reply("add_gift", ctx_id, caller, gift_id, r)
  /\ ops' = ops + 1
  /\ had_admin' = had_admin \cup Administered(data')
  /\ disk' = IF last'.saved THEN _save_data(disk, data') ELSE disk
  /\ issued' = issued \cup Issued(last')
  /\ UNCHANGED <<clock, pc, loc, tmp>>

\* mutant: replacing the codes also sets the quantity to their number
edited_gift_sync_quantity(gift, args) ==
  LET g1 == [f \in DOMAIN gift |->
               IF f = "name" /\ "name" \in DOMAIN args THEN args["name"]
               ELSE IF f = "points_required" /\ "points" \in DOMAIN args THEN args["points"]
               ELSE IF f = "type" /\ "type" \in DOMAIN args THEN args["type"]
               ELSE gift[f]]
  IN  IF "codes" \in DOMAIN args
      THEN Put(Put(g1, "codes", SelectSeq(args["codes"], LAMBDA c : c # "")),
               "quantity", Len(SelectSeq(args["codes"], LAMBDA c : c # "")))
      ELSE g1

\* lines 533-546: only the supplied fields are written
edited_gift(gift, args) ==
  LET g1 == IF "name" \in DOMAIN args THEN Put(gift, "name", args["name"]) ELSE gift
      g2 == IF "points" \in DOMAIN args
            THEN Put(g1, "points_required", args["points"]) ELSE g1
      g3 == IF "qty" \in DOMAIN args \/ "quantity" \in DOMAIN args
            THEN Put(g2, "quantity", Get(args, "qty", Get(args, "quantity", 0))) ELSE g2
      g4 == IF "per_user_limit" \in DOMAIN args \/ "limit" \in DOMAIN args
            THEN Put(g3, "per_user_limit",
                     Get(args, "per_user_limit", Get(args, "limit", 0))) ELSE g3
      g5 == IF "type" \in DOMAIN args THEN Put(g4, "type", args["type"]) ELSE g4
      g6 == IF "codes" \in DOMAIN args
            THEN Put(g5, "codes", split_codes(args["codes"])) ELSE g5
  IN  IF "description" \in DOMAIN args
      THEN Put(g6, "description", args["description"]) ELSE g6

edit_gift_run(d, ctx_id, caller, gift_id, args) ==
  LET d1 == _ensure_ctx(d, ctx_id)
      gifts == d1[ctx_id]["gifts"]
  IN  IF ~_is_admin(d1[ctx_id], caller)
      THEN [data |-> d1] @@ Denied
      ELSE IF gift_id \notin DOMAIN gifts
      THEN [data |-> d1, res |-> "NotFound", saved |-> FALSE]
      ELSE [data |-> WithGift(d1, ctx_id, gift_id, edited_gift(gifts[gift_id], args)),
            res |-> "ok", saved |-> TRUE]

edit_gift(ctx_id, caller, gift_id, args) ==
  /\ ops < MaxOps
  /\ LET r == edit_gift_run(data, ctx_id, caller, gift_id, args)
     IN  /\ data' = r.data
         /\ last' = Reply("edit_gift", ctx_id, caller, gift_id, r) @@ [args |-> args]
  /\ ops' = ops + 1
  /\ had_admin' = had_admin \cup Administered(data')
  /\ disk' = IF last'.saved THEN _save_data(disk, data') ELSE disk
  /\ issued' = issued \cup Issued(last')
  /\ UNCHANGED <<clock, pc, loc, tmp>>

remove_gift_run(d, ctx_id, caller, gift_id) ==
  LET d1 == _ensure_ctx(d, ctx_id)
      gifts == d1[ctx_id]["gifts"]
  IN  IF ~_is_admin(d1[ctx_id], caller)
      THEN [data |-> d1] @@ Denied
      ELSE IF gift_id \notin DOMAIN gifts
      THEN [data |-> d1, res |-> "NotFound", saved |-> FALSE]
      ELSE [data |-> WithCtx(d1, ctx_id, "gifts", Del(gifts, gift_id)),
            res |-> "ok", saved |-> TRUE]

remove_gift(ctx_id, caller, gift_id) ==
  /\ ops < MaxOps
  /\ LET r == remove_gift_run(data, ctx_id, caller, gift_id)
     IN  /\ data' = r.data
         /\ last' = Reply("remove_gift", ctx_id, caller, gift_id, r)
  /\ ops' = ops + 1
  /\ had_admin' = had_admin \cup Administered(data')
  /\ disk' = IF last'.saved THEN _save_data(disk, data') ELSE disk
  /\ issued' = issued \cup Issued(last')
  /\ UNCHANGED <<clock, pc, loc, tmp>>

\* mutant: the codes are appended and the quantity is left as it was
with_codes_same_quantity(gift, new_codes) ==
  Put(gift, "codes", Get(gift, "codes", <<>>) \o new_codes)

\* lines 719-722
with_codes(gift, new_codes) ==
  LET g1 == Put(gift, "codes", Get(gift, "codes", <<>>) \o new_codes)
  IN  Put(g1, "quantity", Get(g1, "quantity", 0) + Len(new_codes))

add_codes_run(d, ctx_id, caller, gid, raw) ==
  LET d1 == _ensure_ctx(d, ctx_id)
      gifts == d1[ctx_id]["gifts"]
  IN  IF ~_is_admin(d1[ctx_id], caller)
      THEN [data |-> d1] @@ Denied
      ELSE IF gid \notin DOMAIN gifts
      THEN [data |-> d1, res |-> "NotFound", saved |-> FALSE]
      ELSE IF Get(gifts[gid], "type", "manual") # "code"
      THEN [data |-> d1, res |-> "WrongType", saved |-> FALSE]
      ELSE [data |-> WithGift(d1, ctx_id, gid, with_codes(gifts[gid], split_codes(raw))),
            res |-> "ok", saved |-> TRUE, count |-> Len(split_codes(raw))]

add_codes(ctx_id, caller, gid, raw) ==
  /\ ops < MaxOps
  /\ LET r == add_codes_run(data, ctx_id, caller, gid, raw)
     IN  /\ data' = r.data
         /\ last' = Reply("add_codes", ctx_id, caller, gid, r) @@ [given |-> raw]
  /\ ops' = ops + 1
  /\ had_admin' = had_admin \cup Administered(data')
  /\ disk' = IF last'.saved THEN _save_data(disk, data') ELSE disk
  /\ issued' = issued \cup Issued(last')
  /\ UNCHANGED <<clock, pc, loc, tmp>>

\* ------------------------------------------------------- command inputs
CodeLists == {<<"k1">>, <<"k1", "k2">>, <<"", "k1">>}

AddGiftArgs ==
  { [name |-> "gift", points |-> 10, qty |-> MaxCount, per_user_limit |-> 1,
     type |-> "code", codes |-> <<"k1", "k2">>],
    [name |-> "gift", points |-> 0, qty |-> MaxCount, limit |-> 1,
     type |-> "code", codes |-> <<"k1", "", "k1">>],
    [name |-> "gift", points |-> 0, qty |-> MaxCount, type |-> "code", codes |-> <<"k1">>],
    [name |-> "gift", points |-> 0, qty |-> MaxCount, type |-> "code",
     codes |-> <<"k1", "k1">>],
    [title |-> "gift", points |-> 10, quantity |-> 1],
    [name |-> "gift", qty |-> 1, per_user_limit |-> 1],
    [name |-> "gift", qty |-> -1, type |-> "code"],
    [points |-> 10] }

EditGiftArgs ==
  { [points |-> 10], [qty |-> -1], [quantity |-> MaxCount, limit |-> 1],
    [per_user_limit |-> 0], [type |-> "code", codes |-> <<"k1", "k1">>],
    [name |-> "gift2", description |-> "d"] }

Deltas == {-10, 10}

CheckinPoints == {-10, 20}

\* documents an earlier run of the plugin saved, which _load_data() returns at start:
\* c1 with its first admin bound,
BoundDoc == bind_admin_run(EmptyMap, "c1", "u1").data

\* and c1 with a code gift on offer and a user who was granted points
StockedGift ==
  [name |-> "gift", points |-> 10, qty |-> 2, per_user_limit |-> 1, type |-> "code",
   codes |-> <<"k1", "k2">>]

GrantedDoc ==
  LET d1 == add_gift_run(BoundDoc, "c1", "u1", StockedGift, "g1").data
  IN  admin_add_points_run(d1, "c1", "u1", "u2", 10).data

StockedDoc == admin_add_points_run(GrantedDoc, "c1", "u1", "u2", 10).data

\* line 151: the plugin starts from what _load_data() reads
Init ==
  /\ disk \in {NoFile, JsonFile(BoundDoc), JsonFile(StockedDoc)}
  /\ tmp = NoFile
  /\ issued = {}
  /\ data = _load_data(disk)
  /\ clock = 1
  /\ last = [op |-> "none"]
  /\ ops = 0
  /\ had_admin = Administered(data)
  /\ pc = EmptyMap
  /\ loc = EmptyMap

Next ==
  \/ \E c \in Contexts, u \in Users, n \in Names, d1 \in 1..MaxDay, d2 \in 1..MaxDay :
        check_in(c, u, n, d1, d2)
  \/ \E c \in Contexts, u \in Users, n \in Names, g \in GiftIds, k \in 0..MaxCount,
        p \in BOOLEAN : redeem_gift(c, u, n, g, k, p)
  \/ \E c \in Contexts, u \in Users : bind_admin(c, u)
  \/ \E c \in Contexts, u \in Users, t \in Users \cup {NoArg} : add_admin(c, u, t)
  \/ \E c \in Contexts, u \in Users, t \in Users \cup {NoArg} : remove_admin(c, u, t)
  \/ \E c \in Contexts, u \in Users, v \in CheckinPoints : set_points_per_checkin(c, u, v)
  \/ \E c \in Contexts, u \in Users, t \in Users, v \in Deltas :
        admin_add_points(c, u, t, v)
  \/ \E c \in Contexts, u \in Users, a \in AddGiftArgs, g \in GiftIds :
        add_gift(c, u, a, g)
  \/ \E c \in Contexts, u \in Users, g \in GiftIds, a \in EditGiftArgs :
        edit_gift(c, u, g, a)
  \/ \E c \in Contexts, u \in Users, g \in GiftIds : remove_gift(c, u, g)
  \/ \E c \in Contexts, u \in Users, g \in GiftIds, r \in CodeLists :
        add_codes(c, u, g, r)

Spec == Init /\ [][Next]_vars

\* ------------------------------------------------------ threaded dispatch
\* Handlers dispatched on several threads. self._lock is held inside _ensure_ctx
\* (lines 157-165) and inside _save (lines 212-213) and nowhere else, so each of the
\* two is one step, and the code of a handler between them runs unlocked: the checks
\* are one step and the writes another.
Threads == {"t1", "t2"}

t_begin_redeem(t, ctx_id, user_id, username, gift_id, raw_count) ==
  /\ pc[t] = "idle" /\ ops < MaxOps
  /\ data' = _ensure_ctx(data, ctx_id)
  /\ loc' = [loc EXCEPT ![t] = [op |-> "redeem_gift", ctx |-> ctx_id, user |-> user_id,
                                username |-> username, gift |-> gift_id,
                                count |-> parse_count(raw_count)]]
  /\ pc' = [pc EXCEPT ![t] = "validate"]
  /\ ops' = ops + 1
  /\ UNCHANGED <<clock, last, had_admin, disk, tmp, issued>>

t_begin_check_in(t, ctx_id, user_id, username) ==
  /\ pc[t] = "idle" /\ ops < MaxOps
  /\ data' = _ensure_ctx(data, ctx_id)
  /\ loc' = [loc EXCEPT ![t] = [op |-> "check_in", ctx |-> ctx_id, user |-> user_id,
                                username |-> username, today |-> isoformat(clock)]]
  /\ pc' = [pc EXCEPT ![t] = "validate"]
  /\ ops' = ops + 1
  /\ UNCHANGED <<clock, last, had_admin, disk, tmp, issued>>

\* what thread t replies
t_reply_of(t, res, saved) ==
  Reply(loc[t].op, loc[t].ctx, loc[t].user, Get(loc[t], "gift", loc[t].username),
        [res |-> res, saved |-> saved, codes |-> Get(loc[t], "codes", <<>>),
         count |-> Get(loc[t], "count", 0)])

\* redeem_gift lines 324-351, check_in lines 226-243
t_validate(t) ==
  /\ pc[t] = "validate"
  /\ LET l == loc[t]
         v == IF l.op = "redeem_gift"
              THEN redeem_validate(data, l.ctx, l.user, l.username, l.gift, l.count)
              ELSE LET d1 == checkin_user(data, l.ctx, l.user, l.username)
                   IN  [data |-> d1,
                        res |-> IF already_checked_in(d1[l.ctx]["users"][l.user], l.today)
                                THEN "AlreadyCheckedInToday" ELSE "ok"]
     IN  /\ data' = v.data
         /\ IF v.res = "ok"
            THEN /\ pc' = [pc EXCEPT ![t] = "commit"]
                 /\ loc' = [loc EXCEPT ![t] = [bought |-> Get(v, "bought", 0),
                                               need |-> Get(v, "need", 0)] @@ l]
                 /\ last' = last
            ELSE /\ pc' = [pc EXCEPT ![t] = "idle"]
                 /\ loc' = loc
                 /\ last' = t_reply_of(t, v.res, FALSE)
  /\ UNCHANGED <<clock, ops, had_admin, disk, tmp, issued>>

\* redeem_gift lines 353-364, check_in lines 245-267. codes.pop(0) on an empty list
\* raises: the handler's except clause replies with a failure, the writes stay.
t_commit(t) ==
  /\ pc[t] = "commit"
  /\ LET l == loc[t]
     IN  IF l.op = "redeem_gift"
         THEN /\ data' = redeem_commit(data, l.ctx, l.user, l.gift, l.count,
                                       l.bought, l.need)
              /\ IF codes_short(data[l.ctx]["gifts"][l.gift], l.count)
                 THEN /\ pc' = [pc EXCEPT ![t] = "idle"]
                      /\ loc' = loc
                      /\ last' = t_reply_of(t, "Error", FALSE)
                 ELSE /\ pc' = [pc EXCEPT ![t] = "save"]
                      /\ loc' = [loc EXCEPT ![t] =
                                   [codes |-> redeem_codes(data, l.ctx, l.gift, l.count)]
                                   @@ l]
                      /\ last' = last
         ELSE /\ data' = checkin_commit(data, l.ctx, l.user, l.today, clock)
              /\ pc' = [pc EXCEPT ![t] = "save"]
              /\ UNCHANGED <<loc, last>>
  /\ UNCHANGED <<clock, ops, had_admin, disk, tmp, issued>>

\* self._save()
t_save(t) ==
  /\ pc[t] = "save"
  /\ pc' = [pc EXCEPT ![t] = "reply"]
  /\ disk' = _save_data(disk, data)
  /\ UNCHANGED <<data, clock, last, ops, had_admin, loc, tmp, issued>>

\* the reply after the save
t_reply(t) ==
  /\ pc[t] = "reply"
  /\ pc' = [pc EXCEPT ![t] = "idle"]
  /\ last' = t_reply_of(t, "ok", TRUE)
  /\ issued' = issued \cup Issued(last')
  /\ UNCHANGED <<data, clock, ops, had_admin, loc, disk, tmp>>

InitThreads ==
  /\ disk \in {JsonFile(GrantedDoc), JsonFile(StockedDoc)}
  /\ tmp = NoFile
  /\ issued = {}
  /\ data = _load_data(disk)
  /\ clock = 1
  /\ last = [op |-> "none"]
  /\ ops = 0
  /\ had_admin = Administered(data)
  /\ pc = [t \in Threads |-> "idle"]
  /\ loc = [t \in Threads |-> EmptyMap]

NextThreads ==
  \/ \E t \in Threads, c \in Contexts, u \in Users, n \in Names, g \in GiftIds,
        k \in 0..MaxCount : t_begin_redeem(t, c, u, n, g, k)
  \/ \E t \in Threads, c \in Contexts, u \in Users, n \in Names :
        t_begin_check_in(t, c, u, n)
  \/ \E t \in Threads : t_validate(t)
  \/ \E t \in Threads : t_commit(t)
  \/ \E t \in Threads : t_save(t)
  \/ \E t \in Threads : t_reply(t)

SpecThreads == InitThreads /\ [][NextThreads]_vars

\* ------------------------------------------------- storage, step by step
\* One handler at a time, followed through its self._save(): the handler's checks
\* and writes to self.data, then open(tmp, "w"), json.dump, os.replace (lines
\* 55-59), then the private delivery of a code redemption and the reply. Each of
\* the three calls may raise, which _save_data logs and swallows (lines 60-61), and
\* the process may be killed and started again at any point.
Main == "main"

\* mutant: the success reply is sent before the save
after_begin_reply_first(r) == IF r.saved THEN "reply" ELSE "idle"

\* where a handler goes once its checks and writes are done
after_begin(r) == IF r.saved THEN "open" ELSE "idle"

s_begin(op, ctx_id, caller, arg, r, day) ==
  /\ pc[Main] = "idle" /\ ops < MaxStoreOps
  /\ data' = r.data
  /\ clock' = day
  /\ ops' = ops + 1
  /\ had_admin' = had_admin \cup Administered(data')
  /\ pc' = [pc EXCEPT ![Main] = after_begin(r)]
  /\ IF r.saved
     THEN /\ loc' = [loc EXCEPT ![Main] =
                       Reply(op, ctx_id, caller, arg, r) @@ [before |-> data]]
          /\ last' = last
     ELSE /\ loc' = loc
          /\ last' = Reply(op, ctx_id, caller, arg, r) @@ [io |-> "none"]
  /\ UNCHANGED <<disk, tmp, issued>>

\* lines 359-374: a code redemption sends its codes after the save
after_save(l) == IF l.op = "redeem_gift" /\ l.codes # <<>> THEN "deliver" ELSE "reply"

\* _save_data returns: io is "ok", or "failed" when a call raised
s_saved(io) ==
  /\ pc' = [pc EXCEPT ![Main] = after_save(loc[Main])]
  /\ loc' = [loc EXCEPT ![Main] = [io |-> io] @@ @]

\* mutant: the document is written over DATA_FILE itself
s_open_in_place(ok) ==
  /\ pc[Main] = "open"
  /\ IF ok
     THEN /\ disk' = TornFile
          /\ pc' = [pc EXCEPT ![Main] = "dump"]
          /\ loc' = [loc EXCEPT ![Main] = [handed |-> data] @@ @]
     ELSE /\ disk' = disk
          /\ pc' = [pc EXCEPT ![Main] = after_save(loc[Main])]
          /\ loc' = [loc EXCEPT ![Main] = [handed |-> data, io |-> "failed"] @@ @]
  /\ UNCHANGED <<data, clock, last, ops, had_admin, tmp, issued>>

\* line 56: open(tmp, "w") truncates the temporary file, or raises
s_open(ok) ==
  /\ pc[Main] = "open"
  /\ IF ok
     THEN /\ tmp' = TornFile
          /\ pc' = [pc EXCEPT ![Main] = "dump"]
          /\ loc' = [loc EXCEPT ![Main] = [handed |-> data] @@ @]
     ELSE /\ tmp' = tmp
          /\ pc' = [pc EXCEPT ![Main] = after_save(loc[Main])]
          /\ loc' = [loc EXCEPT ![Main] = [handed |-> data, io |-> "failed"] @@ @]
  /\ UNCHANGED <<data, clock, last, ops, had_admin, disk, issued>>

\* line 57: json.dump writes the whole document, or raises part of the way
s_dump(ok) ==
  /\ pc[Main] = "dump"
  /\ IF ok
     THEN /\ tmp' = JsonFile(loc[Main].handed)
          /\ pc' = [pc EXCEPT ![Main] = "replace"]
          /\ loc' = loc
     ELSE /\ tmp' = TornFile
          /\ s_saved("failed")
  /\ UNCHANGED <<data, clock, last, ops, had_admin, disk, issued>>

\* line 59: os.replace renames the temporary file over DATA_FILE, or raises
s_replace(ok) ==
  /\ pc[Main] = "replace"
  /\ IF ok
     THEN /\ disk' = tmp
          /\ tmp' = NoFile
          /\ s_saved("ok")
     ELSE /\ UNCHANGED <<disk, tmp>>
          /\ s_saved("failed")
  /\ UNCHANGED <<data, clock, last, ops, had_admin, issued>>

\* line 368: private is what _try_send_private returns
s_deliver(private) ==
  /\ pc[Main] = "deliver"
  /\ pc' = [pc EXCEPT ![Main] = "reply"]
  /\ loc' = [loc EXCEPT ![Main] =
               [delivered |-> private, shown |-> fallback_reply(@.codes, private)] @@ @]
  /\ UNCHANGED <<data, clock, last, ops, had_admin, disk, tmp, issued>>

\* the reply that reports success
s_reply ==
  /\ pc[Main] = "reply"
  /\ pc' = [pc EXCEPT ![Main] = "idle"]
  /\ last' = Del(Del(loc[Main], "before"), "handed")
  /\ loc' = [loc EXCEPT ![Main] = EmptyMap]
  /\ issued' = issued \cup Issued(last')
  /\ UNCHANGED <<data, clock, ops, had_admin, disk, tmp>>

\* the process is killed and started again: line 151 loads DATA_FILE
s_crash ==
  /\ data' = _load_data(disk)
  /\ pc' = [pc EXCEPT ![Main] = "idle"]
  /\ loc' = [loc EXCEPT ![Main] = EmptyMap]
  /\ last' = [op |-> "restart"]
  /\ had_admin' = had_admin \cup Administered(data')
  /\ UNCHANGED <<clock, ops, disk, tmp, issued>>

InitStore ==
  /\ disk \in {NoFile, JsonFile(BoundDoc), JsonFile(StockedDoc)}
  /\ tmp = NoFile
  /\ issued = {}
  /\ data = _load_data(disk)
  /\ clock = 1
  /\ last = [op |-> "none"]
  /\ ops = 0
  /\ had_admin = Administered(data)
  /\ pc = [t \in {Main} |-> "idle"]
  /\ loc = [t \in {Main} |-> EmptyMap]

NextStore ==
  \/ \E c \in Contexts, u \in Users, n \in Names, d1 \in 1..MaxDay, d2 \in 1..MaxDay :
        /\ clock <= d1 /\ d2 \in {d1, d1 + 1}
        /\ LET r == check_in_run(data, c, u, n, d1, d2)
           IN  s_begin("check_in", c, u, n, r, IF r.res = "ok" THEN d2 ELSE d1)
  \/ \E c \in Contexts, u \in Users, n \in Names, g \in GiftIds, k \in 0..MaxCount :
        s_begin("redeem_gift", c, u, g, redeem_gift_run(data, c, u, n, g, k, FALSE), clock)
  \/ \E c \in Contexts, u \in Users :
        s_begin("bind_admin", c, u, NoArg, bind_admin_run(data, c, u), clock)
  \/ \E c \in Contexts, u \in Users, t \in Users \cup {NoArg} :
        s_begin("add_admin", c, u, t, add_admin_run(data, c, u, t), clock)
  \/ \E c \in Contexts, u \in Users, t \in Users \cup {NoArg} :
        s_begin("remove_admin", c, u, t, remove_admin_run(data, c, u, t), clock)
  \/ \E c \in Contexts, u \in Users, v \in CheckinPoints :
        s_begin("set_points_per_checkin", c, u, NoArg,
                set_points_per_checkin_run(data, c, u, v), clock)
  \/ \E c \in Contexts, u \in Users, t \in Users, v \in Deltas :
        s_begin("admin_add_points", c, u, t, admin_add_points_run(data, c, u, t, v), clock)
  \/ \E c \in Contexts, u \in Users, a \in AddGiftArgs, g \in GiftIds :
        s_begin("add_gift", c, u, g, add_gift_run(data, c, u, a, g), clock)
  \/ \E c \in Contexts, u \in Users, g \in GiftIds, a \in EditGiftArgs :
        s_begin("edit_gift", c, u, g, edit_gift_run(data, c, u, g, a), clock)
  \/ \E c \in Contexts, u \in Users, g \in GiftIds :
        s_begin("remove_gift", c, u, g, remove_gift_run(data, c, u, g), clock)
  \/ \E c \in Contexts, u \in Users, g \in GiftIds, r \in CodeLists :
        s_begin("add_codes", c, u, g, add_codes_run(data, c, u, g, r), clock)
  \/ \E ok \in BOOLEAN : s_open(ok)
  \/ \E ok \in BOOLEAN : s_dump(ok)
  \/ \E ok \in BOOLEAN : s_replace(ok)
  \/ \E p \in BOOLEAN : s_deliver(p)
  \/ s_reply
  \/ s_crash

SpecStore == InitStore /\ [][NextStore]_vars

\* ---------------------------------------------------------- two contexts
\* The commands dispatched from two chats. _get_context_id (lines 64-86) names the
\* context after the group or the private chat of the event, and every handler
\* works on self._ensure_ctx(ctx_id).
Contexts2 == {"c1", "c2"}

\* a saved document with two contexts: c1 as in StockedDoc, and c2 with u2 as its
\* admin, a gift under the same id g1 and user u1 holding points
TwoCtxDoc ==
  LET d1 == bind_admin_run(StockedDoc, "c2", "u2").data
      d2 == add_gift_run(d1, "c2", "u2", [title |-> "gift", points |-> 10, quantity |-> 1],
                         "g1").data
  IN  admin_add_points_run(d2, "c2", "u2", "u1", 10).data

InitCtx ==
  /\ disk \in {JsonFile(StockedDoc), JsonFile(TwoCtxDoc)}
  /\ tmp = NoFile
  /\ issued = {}
  /\ data = _load_data(disk)
  /\ clock = 1
  /\ last = [op |-> "none"]
  /\ ops = 0
  /\ had_admin = Administered(data)
  /\ pc = EmptyMap
  /\ loc = EmptyMap

NextCtx ==
  \/ /\ ops < MaxCtxOps
     /\ \E c \in Contexts2, u \in Users, n \in Names, d1 \in 1..MaxDay, d2 \in 1..MaxDay :
           check_in(c, u, n, d1, d2)
  \/ /\ ops < MaxCtxOps
     /\ \E c \in Contexts2, u \in Users, n \in Names, g \in GiftIds, k \in 0..MaxCount,
           p \in BOOLEAN : redeem_gift(c, u, n, g, k, p)
  \/ /\ ops < MaxCtxOps
     /\ \E c \in Contexts2, u \in Users : bind_admin(c, u)
  \/ /\ ops < MaxCtxOps
     /\ \E c \in Contexts2, u \in Users, t \in Users \cup {NoArg} : add_admin(c, u, t)
  \/ /\ ops < MaxCtxOps
     /\ \E c \in Contexts2, u \in Users, t \in Users \cup {NoArg} : remove_admin(c, u, t)
  \/ /\ ops < MaxCtxOps
     /\ \E c \in Contexts2, u \in Users, v \in CheckinPoints :
           set_points_per_checkin(c, u, v)
  \/ /\ ops < MaxCtxOps
     /\ \E c \in Contexts2, u \in Users, t \in Users, v \in Deltas :
           admin_add_points(c, u, t, v)
  \/ /\ ops < MaxCtxOps
     /\ \E c \in Contexts2, u \in Users, a \in AddGiftArgs, g \in GiftIds :
           add_gift(c, u, a, g)
  \/ /\ ops < MaxCtxOps
     /\ \E c \in Contexts2, u \in Users, g \in GiftIds, a \in EditGiftArgs :
           edit_gift(c, u, g, a)
  \/ /\ ops < MaxCtxOps
     /\ \E c \in Contexts2, u \in Users, g \in GiftIds : remove_gift(c, u, g)
  \/ /\ ops < MaxCtxOps
     /\ \E c \in Contexts2, u \in Users, g \in GiftIds, r \in CodeLists :
           add_codes(c, u, g, r)

SpecCtx == InitCtx /\ [][NextCtx]_vars

\* -------------------------------------------------------------- query_user
\* lines 626-631: the report lines; a purchase whose gift is no longer in the
\* catalog makes g None, and g.get raises AttributeError
query_report(ctx, user) ==
  [points |-> Get(user, "points", 0), total_days |-> Get(user, "total_days", 0),
   continuous_days |-> Get(user, "continuous_days", 0),
   month_days |-> Get(user, "month_days", 0),
   purchases |-> Get(user, "purchases", EmptyMap)]

\* line 630-631: the purchases whose gift ctx['gifts'].get(gid) does not find
orphans(ctx, user) == (DOMAIN Get(user, "purchases", EmptyMap)) \ (DOMAIN ctx["gifts"])

\* the whole handler; a missing target argument means the caller (lines 616-620).
\* The AttributeError is caught at line 633 and answered with the failure reply.
query_user_run(d, ctx_id, caller, arg) ==
  LET d1 == _ensure_ctx(d, ctx_id)
      ctx == d1[ctx_id]
      target == IF arg = NoArg THEN caller ELSE arg
  IN  IF target \notin DOMAIN ctx["users"]
      THEN [data |-> d1, res |-> "NotFound", saved |-> FALSE, target |-> target]
      ELSE IF orphans(ctx, ctx["users"][target]) # {}
      THEN [data |-> d1, res |-> "Error", saved |-> FALSE, target |-> target]
      ELSE [data |-> d1, res |-> "ok", saved |-> FALSE, target |-> target,
            report |-> query_report(ctx, ctx["users"][target])]

query_user(ctx_id, caller, arg) ==
  /\ ops < MaxOps
  /\ LET r == query_user_run(data, ctx_id, caller, arg)
     IN  /\ data' = r.data
         /\ last' = Reply("query_user", ctx_id, caller, r.target, r)
                      @@ [report |-> Get(r, "report", EmptyMap)]
  /\ ops' = ops + 1
  /\ had_admin' = had_admin \cup Administered(data')
  /\ UNCHANGED <<clock, pc, loc, disk, tmp, issued>>

\* a saved document in which u2 has redeemed gift g1
RedeemedDoc == redeem_gift_run(StockedDoc, "c1", "u2", "u2", "g1", 1, TRUE).data

InitQuery ==
  /\ disk \in {NoFile, JsonFile(BoundDoc), JsonFile(StockedDoc), JsonFile(RedeemedDoc)}
  /\ tmp = NoFile
  /\ issued = {}
  /\ data = _load_data(disk)
  /\ clock = 1
  /\ last = [op |-> "none"]
  /\ ops = 0
  /\ had_admin = Administered(data)
  /\ pc = EmptyMap
  /\ loc = EmptyMap

\* the commands of Spec and the query
NextQuery ==
  \/ Next
  \/ \E c \in Contexts, u \in Users, t \in Users \cup {NoArg} : query_user(c, u, t)

SpecQuery == InitQuery /\ [][NextQuery]_vars

\* =============================================================== claims
\* the context as a command resolving ctx_id sees it: a context not yet
\* referenced is the defaulted one
View(d, ctx_id) ==
  IF ctx_id \in DOMAIN d THEN d[ctx_id]
  ELSE [users |-> EmptyMap, gifts |-> EmptyMap, config |-> DefaultConfig, admins |-> <<>>]

\* every context other than ctx_id is the same in d and e
OthersSame(d, e, ctx_id) ==
  \A x \in ((DOMAIN d) \cup (DOMAIN e)) \ {ctx_id} :
     x \in DOMAIN d /\ x \in DOMAIN e /\ d[x] = e[x]

PointsOf(ctx, user_id) == Get(Get(ctx.users, user_id, EmptyMap), "points", 0)

BoughtOf(ctx, user_id, gift_id) ==
  Get(Get(Get(ctx.users, user_id, EmptyMap), "purchases", EmptyMap), gift_id, 0)

\* C1: in every reachable state every user's points is >= 0.
C1_PointsNeverNegative ==
  \A c \in DOMAIN data : \A u \in DOMAIN data[c].users : PointsOf(data[c], u) >= 0

\* C2: in every reachable state every gift's quantity is >= 0.
C2_QuantityNeverNegative ==
  \A c \in DOMAIN data : \A g \in DOMAIN data[c].gifts : data[c].gifts[g].quantity >= 0

RedeemFailures ==
  {"GiftNotFound", "InsufficientStock", "InsufficientPoints", "OverPersonalLimit",
   "InsufficientCodes"}

\* C3: a redeem call that fails a validation mutates no field of any user or gift:
\* every gift and every user record that existed is unchanged, the caller's points
\* and purchases are what they were (a caller seen for the first time gets a record
\* with 0 points and no purchases), and config, admins and the other contexts are
\* untouched.
C3_FailedRedeemIsNoOp ==
  [][ (last'.op = "redeem_gift" /\ last'.res \in RedeemFailures) =>
        LET c == last'.ctx
            u == last'.caller
            pre == View(data, c)
            post == View(data', c)
        IN  /\ post.gifts = pre.gifts
            /\ post.config = pre.config
            /\ post.admins = pre.admins
            /\ \A v \in DOMAIN pre.users : v \in DOMAIN post.users
                                          /\ post.users[v] = pre.users[v]
            /\ DOMAIN post.users \subseteq (DOMAIN pre.users) \cup {u}
            /\ PointsOf(post, u) = PointsOf(pre, u)
            /\ \A g \in GiftIds : BoughtOf(post, u, g) = BoughtOf(pre, u, g)
            /\ OthersSame(data, data', c)
            /\ ~last'.saved ]_vars

\* a redemption was refused for want of points, of codes, or over the limit
C3_Witness ==
  /\ last.op = "redeem_gift"
  /\ last.res \in {"InsufficientPoints", "OverPersonalLimit", "InsufficientCodes"}

\* C4: a successful redeem(user, gift, count) debits points_required*count, takes
\* count off the stock, adds count to purchases[gift], and for a code gift issues
\* the first count codes of the pool in pool order, the rest keeping its order;
\* nothing else changes.
C4_RedeemCommit ==
  [][ (last'.op = "redeem_gift" /\ last'.res = "ok") =>
        LET c == last'.ctx
            u == last'.caller
            g == last'.arg
            k == last'.count
            pre == View(data, c)
            post == View(data', c)
            gift == pre.gifts[g]
            after == post.gifts[g]
        IN  /\ k >= 1
            /\ PointsOf(post, u) = PointsOf(pre, u) - gift.points_required * k
            /\ after.quantity = gift.quantity - k
            /\ BoughtOf(post, u, g) = BoughtOf(pre, u, g) + k
            /\ \A f \in (DOMAIN gift) \ {"quantity", "codes"} : after[f] = gift[f]
            /\ IF gift.type = "code"
               THEN /\ Len(last'.codes) = k
                    /\ \A i \in 1..k : last'.codes[i] = gift.codes[i]
                    /\ Len(after.codes) = Len(gift.codes) - k
                    /\ \A i \in 1..Len(after.codes) : after.codes[i] = gift.codes[i + k]
               ELSE last'.codes = <<>> /\ after.codes = gift.codes
            /\ \A h \in DOMAIN pre.gifts : h # g => post.gifts[h] = pre.gifts[h]
            /\ DOMAIN post.gifts = DOMAIN pre.gifts
            /\ \A v \in DOMAIN pre.users : v # u => post.users[v] = pre.users[v]
            /\ DOMAIN post.users = (DOMAIN pre.users) \cup {u}
            /\ \A f \in DOMAIN Get(pre.users, u, EmptyMap) :
                  f \notin {"points", "purchases"} => post.users[u][f] = pre.users[u][f]
            /\ \A h \in GiftIds : h # g => BoughtOf(post, u, h) = BoughtOf(pre, u, h)
            /\ post.config = pre.config /\ post.admins = pre.admins
            /\ OthersSame(data, data', c) ]_vars

\* a code gift was redeemed and codes remain in its pool
C4_Witness ==
  /\ last.op = "redeem_gift" /\ last.res = "ok"
  /\ Len(last.codes) >= 1
  /\ Len(data[last.ctx].gifts[last.arg].codes) >= 1

\* the redeem attempts C5 is about: the gift has per_user_limit = 1 and the caller
\* has redeemed it before
C5_Case(c, u, g) ==
  /\ g \in DOMAIN View(data, c).gifts
  /\ View(data, c).gifts[g].per_user_limit = 1
  /\ BoughtOf(View(data, c), u, g) >= 1

\* C5 as stated: such an attempt gets OverPersonalLimit whatever the points and the
\* stock are, and the state is unchanged.
C5_AlwaysOverPersonalLimit ==
  [][ (last'.op = "redeem_gift" /\ C5_Case(last'.ctx, last'.caller, last'.arg)) =>
        (last'.res = "OverPersonalLimit" /\ data' = data) ]_vars

\* C5 amended: such an attempt is refused and the state is unchanged; the refusal is
\* OverPersonalLimit whatever the points are when the stock covers the count, and
\* InsufficientStock when it does not.
C5_LimitAfterStock ==
  [][ (last'.op = "redeem_gift" /\ C5_Case(last'.ctx, last'.caller, last'.arg)) =>
        /\ data' = data
        /\ last'.res = IF View(data, last'.ctx).gifts[last'.arg].quantity < last'.count
                       THEN "InsufficientStock" ELSE "OverPersonalLimit" ]_vars

\* a second attempt on a limit-1 gift was refused although stock and points suffice
C5_Witness ==
  /\ last.op = "redeem_gift" /\ last.res = "OverPersonalLimit"
  /\ C5_Case(last.ctx, last.caller, last.arg)
  /\ LET gift == data[last.ctx].gifts[last.arg]
     IN  /\ gift.quantity >= last.count
         /\ PointsOf(data[last.ctx], last.caller) >= gift.points_required * last.count

\* C6: a check-in refused with AlreadyCheckedInToday leaves the whole document
\* unchanged.
C6_RejectedCheckinIsNoOp ==
  [][ (last'.op = "check_in" /\ last'.res = "AlreadyCheckedInToday") =>
        data' = data ]_vars

\* C7: a successful check-in makes continuous_days the previous value + 1 when
\* last_checkin is the day before today, and 1 otherwise.
C7_Streak ==
  [][ (last'.op = "check_in" /\ last'.res = "ok") =>
        LET c == last'.ctx
            u == last'.caller
            before == Get(View(data, c).users, u, EmptyMap)
            yesterday == isoformat(last'.today - 1)
        IN  data'[c].users[u].continuous_days =
              IF Get(before, "last_checkin", None) = yesterday
              THEN Get(before, "continuous_days", 0) + 1
              ELSE 1 ]_vars

\* C9: bind_admin succeeds only on an empty admin list, and never again in a
\* context that has had an admin.
C9_BindClosedForGood ==
  [][ last'.op = "bind_admin" =>
        /\ (last'.res = "ok" => View(data, last'.ctx).admins = <<>>)
        /\ (last'.ctx \in had_admin => last'.res = "AlreadyHasAdmins") ]_vars

AdminOps ==
  {"add_gift", "edit_gift", "remove_gift", "add_codes", "set_points_per_checkin",
   "admin_add_points", "add_admin", "remove_admin"}

\* C10: an admin command from a caller who is not in the context's admin list is
\* refused as Unauthorized and leaves users, gifts, config and admins unchanged.
C10_AdminGate ==
  [][ (/\ last'.op \in AdminOps
       /\ last'.caller \notin SeqToSet(View(data, last'.ctx).admins)) =>
        /\ last'.res = "Unauthorized"
        /\ View(data', last'.ctx) = View(data, last'.ctx)
        /\ OthersSame(data, data', last'.ctx)
        /\ ~last'.saved ]_vars

\* a non-admin was refused in a context that has an admin
C10_Witness ==
  /\ last.op \in AdminOps /\ last.res = "Unauthorized"
  /\ data[last.ctx].admins # <<>>
  /\ last.caller \notin SeqToSet(data[last.ctx].admins)

\* C8: under any interleaving of concurrently dispatched redeems and check-ins no
\* points go below 0, no stock goes below 0, no per-user limit is exceeded, no
\* redemption runs out of codes after its checks passed, and no user is awarded
\* twice for one date (the runs of this specification stay within one date).
C8_NoRace ==
  /\ C1_PointsNeverNegative
  /\ C2_QuantityNeverNegative
  /\ \A c \in DOMAIN data : \A u \in DOMAIN data[c].users : \A g \in DOMAIN data[c].gifts :
        data[c].gifts[g].per_user_limit > 0 =>
           BoughtOf(data[c], u, g) <= data[c].gifts[g].per_user_limit
  /\ last.op = "redeem_gift" => last.res # "Error"
  /\ \A c \in DOMAIN data : \A u \in DOMAIN data[c].users :
        Get(data[c].users[u], "total_days", 0) <= 1

\* C11: in every mutating command the save of the whole in-memory document comes
\* after the writes to memory and before the success reply, and for a code
\* redemption before the private delivery of the codes: when the codes are
\* delivered and when success is replied, _save_data has been handed the document,
\* and the document it was handed is the one in memory.
C11_SaveBeforeSuccess ==
  [][ /\ (last' # last /\ last'.op # "restart" /\ last'.res = "ok") =>
           /\ pc[Main] = "reply"
           /\ "handed" \in DOMAIN loc[Main]
           /\ loc[Main].handed = data
           /\ data' = data
      /\ (pc[Main] = "deliver" /\ pc'[Main] = "reply") =>
           /\ "handed" \in DOMAIN loc[Main]
           /\ loc[Main].handed = data
           /\ last' = last ]_vars

\* a code redemption replied success after the save and the private delivery
C11_Witness ==
  /\ pc[Main] = "idle" /\ last.op = "redeem_gift" /\ last.res = "ok"
  /\ last.codes # <<>> /\ last.delivered /\ last.io = "ok"
  /\ disk = JsonFile(data)

\* C12: when the save of a mutating command fails, the command's writes to memory
\* are reverted: the command ends with the document it started from.
C12_RevertOnSaveFailure ==
  [][ (/\ pc[Main] = "reply" /\ pc'[Main] = "idle"
       /\ last'.op # "restart" /\ last'.io = "failed") =>
        data' = loc[Main].before ]_vars

\* C13: a command whose save failed does not reply success and hands out no codes.
C13_FailedSaveIsSurfaced ==
  [][ (last' # last /\ last'.op # "restart" /\ last'.io = "failed") =>
        (last'.res # "ok" /\ last'.codes = <<>>) ]_vars

\* C14: at every step of every save, a write error or a kill between the opening of
\* the temporary file and the rename included, DATA_FILE never holds part of a
\* document: it keeps what it held or becomes the complete document being saved,
\* and a load at a restart returns the document it holds.
C14_AtomicReplace ==
  /\ disk.kind # "torn"
  /\ [][ /\ disk'.kind # "torn"
         /\ disk' # disk => /\ pc[Main] = "replace"
                            /\ disk' = JsonFile(data)
                            /\ disk' = JsonFile(loc[Main].handed)
         /\ (/\ last'.op = "restart" /\ pc'[Main] = "idle" /\ ops' = ops
             /\ disk.kind = "json") => data' = disk.doc ]_vars

\* the process was killed while the temporary file was being written, and the
\* restart loaded the document saved before
C14_Witness ==
  /\ last.op = "restart" /\ tmp.kind = "torn"
  /\ disk.kind = "json" /\ data = disk.doc /\ ops >= 1

\* C15: codes are never duplicated or reused: a redemption never issues a code
\* string that an earlier redemption of the same gift issued, and never issues the
\* same code string twice.
C15_CodesNeverReissued ==
  [][ (last'.op = "redeem_gift" /\ last'.res = "ok") =>
        LET codes == last'.codes
        IN  /\ \A i, j \in 1..Len(codes) : i # j => codes[i] # codes[j]
            /\ \A i \in 1..Len(codes) :
                  <<last'.ctx, last'.arg, codes[i]>> \notin issued ]_vars

\* C16: a committed code redemption is kept whatever the private delivery returns,
\* and the redeeming user is given exactly the codes popped from the pool: in the
\* private message when the delivery reports delivered, in the reply otherwise.
C16_PoppedCodesReachUser ==
  [][ (/\ last'.op = "redeem_gift" /\ last'.res = "ok"
       /\ View(data, last'.ctx).gifts[last'.arg].type = "code") =>
        LET c == last'.ctx
            u == last'.caller
            g == last'.arg
            k == last'.count
            gift == View(data, c).gifts[g]
            after == data'[c].gifts[g]
            popped == SubSeq(gift.codes, 1, Len(gift.codes) - Len(after.codes))
        IN  /\ Len(popped) = k
            /\ gift.codes = popped \o after.codes
            /\ after.quantity = gift.quantity - k
            /\ PointsOf(data'[c], u) = PointsOf(View(data, c), u) - gift.points_required * k
            /\ BoughtOf(data'[c], u, g) = BoughtOf(View(data, c), u, g) + k
            /\ last'.saved
            /\ last'.codes = popped
            /\ last'.shown = IF last'.delivered THEN <<>> ELSE popped ]_vars

\* a code redemption whose private delivery failed: the reply shows the codes
C16_Witness ==
  /\ last.op = "redeem_gift" /\ last.res = "ok"
  /\ ~last.delivered /\ Len(last.shown) >= 1

\* C17: redeem validation fails fast in the order gift exists, stock, points,
\* per-user limit, code count: the failure reported is the first in that order, so
\* a request that costs more than the user's points and also exceeds the per-user
\* limit is refused with InsufficientPoints.
C17_ValidationOrder ==
  [][ last'.op = "redeem_gift" =>
        LET pre == View(data, last'.ctx)
            u == last'.caller
            g == last'.arg
            k == last'.count
        IN  last'.res =
              IF g \notin DOMAIN pre.gifts THEN "GiftNotFound"
              ELSE IF pre.gifts[g].quantity < k THEN "InsufficientStock"
              ELSE IF PointsOf(pre, u) < pre.gifts[g].points_required * k
                   THEN "InsufficientPoints"
              ELSE IF /\ pre.gifts[g].per_user_limit # 0
                      /\ BoughtOf(pre, u, g) + k > pre.gifts[g].per_user_limit
                   THEN "OverPersonalLimit"
              ELSE IF pre.gifts[g].type = "code" /\ Len(pre.gifts[g].codes) < k
                   THEN "InsufficientCodes"
              ELSE "ok" ]_vars

\* C18: a successful check-in adds exactly config.points_per_checkin to the user's
\* points, adds 1 to total_days, sets last_checkin to today, and makes month_days 1
\* when today's month differs from the month of the previous check-in and the
\* previous month_days + 1 otherwise; no other user, no gift, no config and no
\* admin list changes.
C18_CheckinAward ==
  [][ (last'.op = "check_in" /\ last'.res = "ok") =>
        LET c == last'.ctx
            u == last'.caller
            pre == View(data, c)
            post == data'[c]
            before == Get(pre.users, u, EmptyMap)
            rec == post.users[u]
            prev == Get(before, "last_checkin", None)
            other_month == /\ prev # None
                           /\ (fromisoformat(prev) - 1) \div MonthLen
                                # (last'.today - 1) \div MonthLen
        IN  /\ rec.points = Get(before, "points", 0)
                              + Get(pre.config, "points_per_checkin",
                                    DEFAULT_POINTS_PER_CHECKIN)
            /\ rec.total_days = Get(before, "total_days", 0) + 1
            /\ rec.last_checkin = isoformat(last'.today)
            /\ rec.month_days = IF other_month THEN 1
                                ELSE Get(before, "month_days", 0) + 1
            /\ rec.purchases = Get(before, "purchases", EmptyMap)
            /\ DOMAIN post.users = (DOMAIN pre.users) \cup {u}
            /\ \A v \in DOMAIN pre.users : v # u => post.users[v] = pre.users[v]
            /\ post.gifts = pre.gifts
            /\ post.config = pre.config
            /\ post.admins = pre.admins
            /\ OthersSame(data, data', c) ]_vars

\* a user who checked in last month checks in again: month_days starts over
C18_Witness ==
  /\ last.op = "check_in" /\ last.res = "ok"
  /\ data[last.ctx].users[last.caller].total_days = 2
  /\ data[last.ctx].users[last.caller].month_days = 1

\* C19: add_codes by an admin on an existing code gift appends the given codes (the
\* non-empty pieces of the comma-separated argument) to the end of the pool in
\* order and adds their number to quantity; on an unknown
\* gift id it replies NotFound and on a gift that is not of type code WrongType,
\* and then the pool and the quantity, with the rest of the document, are as before.
C19_AddCodes ==
  [][ (/\ last'.op = "add_codes"
       /\ last'.caller \in SeqToSet(View(data, last'.ctx).admins)) =>
        LET c == last'.ctx
            g == last'.arg
            pre == View(data, c)
            post == View(data', c)
        IN  IF g \notin DOMAIN pre.gifts
            THEN last'.res = "NotFound" /\ post = pre /\ ~last'.saved
            ELSE IF pre.gifts[g].type # "code"
            THEN last'.res = "WrongType" /\ post = pre /\ ~last'.saved
            ELSE LET gift == pre.gifts[g]
                     after == post.gifts[g]
                     n == Len(after.codes) - Len(gift.codes)
                 IN  /\ last'.res = "ok" /\ last'.saved
                     /\ n >= 0 /\ n = last'.count
                     /\ after.codes = gift.codes \o SelectSeq(last'.given, LAMBDA x : x # "")
                     /\ after.quantity = gift.quantity + n
                     /\ \A f \in (DOMAIN gift) \ {"codes", "quantity"} : after[f] = gift[f]
                     /\ DOMAIN after = DOMAIN gift
                     /\ \A h \in DOMAIN pre.gifts : h # g => post.gifts[h] = pre.gifts[h]
                     /\ DOMAIN post.gifts = DOMAIN pre.gifts
                     /\ post.users = pre.users /\ post.config = pre.config
                     /\ post.admins = pre.admins ]_vars

\* codes were added behind codes already in the pool
C19_Witness ==
  /\ last.op = "add_codes" /\ last.res = "ok" /\ last.count >= 1
  /\ Len(data[last.ctx].gifts[last.arg].codes) > last.count

\* the gift field each key of an edit command writes
C20_FieldOf ==
  [name |-> "name", points |-> "points_required", qty |-> "quantity",
   quantity |-> "quantity", per_user_limit |-> "per_user_limit",
   limit |-> "per_user_limit", type |-> "type", codes |-> "codes",
   description |-> "description"]

\* C20: edit_gift by an admin on an existing gift changes only the fields supplied
\* in the call, to the values supplied, and leaves every other field of that gift
\* and every other gift unchanged; replacing codes overwrites the whole pool and
\* leaves quantity as it was; on an unknown gift id it replies NotFound and changes
\* nothing.
C20_EditFrame ==
  [][ (/\ last'.op = "edit_gift"
       /\ last'.caller \in SeqToSet(View(data, last'.ctx).admins)) =>
        LET c == last'.ctx
            g == last'.arg
            args == last'.args
            pre == View(data, c)
            post == View(data', c)
        IN  IF g \notin DOMAIN pre.gifts
            THEN last'.res = "NotFound" /\ post = pre /\ ~last'.saved
            ELSE LET gift == pre.gifts[g]
                     after == post.gifts[g]
                     supplied == {C20_FieldOf[k] : k \in DOMAIN args}
                 IN  /\ last'.res = "ok" /\ last'.saved
                     /\ DOMAIN after = DOMAIN gift
                     /\ \A f \in (DOMAIN gift) \ supplied : after[f] = gift[f]
                     /\ "name" \in DOMAIN args => after.name = args.name
                     /\ "points" \in DOMAIN args => after.points_required = args.points
                     /\ "qty" \in DOMAIN args => after.quantity = args.qty
                     /\ "quantity" \in (DOMAIN args) \ {"qty"} =>
                           after.quantity = args.quantity
                     /\ "per_user_limit" \in DOMAIN args =>
                           after.per_user_limit = args.per_user_limit
                     /\ "limit" \in (DOMAIN args) \ {"per_user_limit"} =>
                           after.per_user_limit = args.limit
                     /\ "type" \in DOMAIN args => after.type = args.type
                     /\ "codes" \in DOMAIN args =>
                           after.codes = SelectSeq(args.codes, LAMBDA x : x # "")
                     /\ "description" \in DOMAIN args =>
                           after.description = args.description
                     /\ \A h \in DOMAIN pre.gifts : h # g => post.gifts[h] = pre.gifts[h]
                     /\ DOMAIN post.gifts = DOMAIN pre.gifts
                     /\ post.users = pre.users /\ post.config = pre.config
                     /\ post.admins = pre.admins ]_vars

\* the codes of a gift were replaced and its quantity is not their number
C20_Witness ==
  /\ last.op = "edit_gift" /\ last.res = "ok" /\ "codes" \in DOMAIN last.args
  /\ data[last.ctx].gifts[last.arg].quantity
       # Len(data[last.ctx].gifts[last.arg].codes)

\* C21: add_gift always stores the new gift under an identifier that is not yet a
\* key of the context's gifts: no existing gift is overwritten and the number of
\* gifts grows by one with every successful add.
C21_FreshGiftId ==
  [][ (last'.op = "add_gift" /\ last'.res = "ok") =>
        LET pre == View(data, last'.ctx)
            post == View(data', last'.ctx)
        IN  /\ last'.arg \notin DOMAIN pre.gifts
            /\ \A h \in DOMAIN pre.gifts : h \in DOMAIN post.gifts
                                          /\ post.gifts[h] = pre.gifts[h]
            /\ Cardinality(DOMAIN post.gifts) = Cardinality(DOMAIN pre.gifts) + 1 ]_vars

Commands ==
  AdminOps \cup {"check_in", "redeem_gift", "bind_admin"}

\* C22: a command executed in one context leaves the users, gifts, config and
\* admins of every other context unchanged, and being an admin of one context gives
\* no rights in another: an admin command is refused unless its caller is in the
\* admin list of the context it is sent in.
C22_ContextIsolation ==
  [][ last'.op \in Commands =>
        /\ \A b \in DOMAIN data : b # last'.ctx => b \in DOMAIN data' /\ data'[b] = data[b]
        /\ DOMAIN data' \subseteq (DOMAIN data) \cup {last'.ctx}
        /\ (/\ last'.op \in AdminOps
            /\ last'.caller \notin SeqToSet(View(data, last'.ctx).admins)) =>
              (last'.res = "Unauthorized" /\ View(data', last'.ctx) = View(data, last'.ctx))
      ]_vars

\* the admin of one context was refused an admin command in the other context,
\* where the same user id and gift id exist
C22_Witness ==
  /\ last.op \in AdminOps /\ last.res = "Unauthorized"
  /\ \E b \in DOMAIN data :
        /\ b # last.ctx
        /\ last.caller \in SeqToSet(data[b].admins)
        /\ data[b].users # EmptyMap /\ data[last.ctx].users # EmptyMap

\* quantity - len(codes) of a gift
C23_Slack(gift) == gift.quantity - Len(gift.codes)

\* C23: for a code gift a successful redeem of count units takes count off the
\* quantity and off the pool, and a successful add_codes of n codes adds n to
\* both, so that quantity - len(codes) of a code gift is changed by add_gift and
\* edit_gift only.
C23_Lockstep ==
  [][ /\ (/\ last'.op = "redeem_gift" /\ last'.res = "ok"
          /\ View(data, last'.ctx).gifts[last'.arg].type = "code") =>
            LET gift == View(data, last'.ctx).gifts[last'.arg]
                after == data'[last'.ctx].gifts[last'.arg]
            IN  /\ after.quantity = gift.quantity - last'.count
                /\ Len(after.codes) = Len(gift.codes) - last'.count
      /\ (last'.op = "add_codes" /\ last'.res = "ok") =>
            LET gift == View(data, last'.ctx).gifts[last'.arg]
                after == data'[last'.ctx].gifts[last'.arg]
            IN  /\ after.quantity = gift.quantity + last'.count
                /\ Len(after.codes) = Len(gift.codes) + last'.count
      /\ last'.op \notin {"add_gift", "edit_gift"} =>
            \A c \in DOMAIN data : \A g \in DOMAIN data[c].gifts :
               (g \in DOMAIN data'[c].gifts /\ data[c].gifts[g].type = "code") =>
                  C23_Slack(data'[c].gifts[g]) = C23_Slack(data[c].gifts[g]) ]_vars

\* codes were redeemed from a gift whose quantity is not the length of its pool
C23_Witness ==
  /\ last.op = "redeem_gift" /\ last.res = "ok" /\ last.codes # <<>>
  /\ C23_Slack(data[last.ctx].gifts[last.arg]) # 0

C24_Counter(user, f) == Get(user, f, 0)

\* C24: for every user who has checked in, 1 <= continuous_days <= total_days and
\* 1 <= month_days <= total_days; total_days is the number of the user's successful
\* check-ins (it is 0 for a user without last_checkin, a successful check-in adds 1
\* and nothing else changes it); a user created by a redemption or an admin grant
\* has no last_checkin, and the first check-in makes the three counters 1.
C24_Counters ==
  /\ [](\A c \in DOMAIN data : \A u \in DOMAIN data[c].users :
          LET user == data[c].users[u]
          IN  IF Get(user, "last_checkin", None) = None
              THEN C24_Counter(user, "total_days") = 0
              ELSE /\ 1 <= C24_Counter(user, "continuous_days")
                   /\ C24_Counter(user, "continuous_days") <= C24_Counter(user, "total_days")
                   /\ 1 <= C24_Counter(user, "month_days")
                   /\ C24_Counter(user, "month_days") <= C24_Counter(user, "total_days"))
  /\ [][ \A c \in DOMAIN data' : \A u \in DOMAIN data'[c].users :
           LET before == Get(View(data, c).users, u, EmptyMap)
               user == data'[c].users[u]
               checked_in == /\ last'.op = "check_in" /\ last'.res = "ok"
                             /\ last'.ctx = c /\ last'.caller = u
           IN  /\ C24_Counter(user, "total_days") =
                     C24_Counter(before, "total_days") + (IF checked_in THEN 1 ELSE 0)
               /\ (checked_in /\ Get(before, "last_checkin", None) = None) =>
                     /\ user.continuous_days = 1
                     /\ user.total_days = 1
                     /\ user.month_days = 1
               /\ (~checked_in /\ u \notin DOMAIN View(data, c).users) =>
                     Get(user, "last_checkin", None) = None ]_vars

\* a user created by an admin grant, holding points, checked in for the first time
C24_Witness ==
  /\ last.op = "check_in" /\ last.res = "ok"
  /\ LET user == data[last.ctx].users[last.caller]
     IN  /\ user.total_days = 1
         /\ "continuous_days" \in DOMAIN user
         /\ user.points > Get(data[last.ctx].config, "points_per_checkin", 0)
         /\ user.points > 0

\* C25: query_user on an existing user replies that user's points, counters and
\* purchases, without an error and without changing the state, also when a gift
\* recorded in the purchases has been removed from the catalog.
C25_QueryNeverFails ==
  [][ (/\ last'.op = "query_user"
       /\ last'.arg \in DOMAIN View(data, last'.ctx).users) =>
        LET pre == View(data, last'.ctx)
            user == pre.users[last'.arg]
        IN  /\ last'.res = "ok"
            /\ last'.report.points = Get(user, "points", 0)
            /\ last'.report.total_days = Get(user, "total_days", 0)
            /\ last'.report.continuous_days = Get(user, "continuous_days", 0)
            /\ last'.report.month_days = Get(user, "month_days", 0)
            /\ last'.report.purchases = Get(user, "purchases", EmptyMap)
            /\ View(data', last'.ctx) = pre
            /\ OthersSame(data, data', last'.ctx)
            /\ ~last'.saved ]_vars
====
